---- MODULE Spec2Model ----
(***************************************************************************)
(* Model of the tool layer of the superagent repository:                   *)
(*   - the progressive-disclosure capability gate of util_middlewares.py   *)
(*     (skills_reducer, tool_load_skill, SkillsMiddleware),                *)
(*   - the response language guard (FinalTranslateMiddleware).             *)
(*                                                                         *)
(* Representation of Python values:                                        *)
(*   Optional[T]      a sequence of length 0 (None / key absent) or 1      *)
(*   list[str]        a sequence of strings                                *)
(*   str built by an f-string or join: the sequence of its pieces          *)
(*   a whitespace separated str (allowed_tools): the sequence of its words *)
(*   a language code: the sequence of its characters                       *)
(***************************************************************************)
EXTENDS Integers, Sequences, FiniteSets, TLC

(***************************************************************************)
(* Bounds                                                                  *)
(***************************************************************************)
\* longest conversation (number of messages) explored
MaxMsgs == 6
\* most tool calls one assistant message carries
MaxCalls == 2
\* longest tool pool and longest allowed_tools list the filter is applied to
\* on its own
MaxPool == 3
MaxAllowed == 2

(***************************************************************************)
(* Python helpers                                                          *)
(***************************************************************************)
None == <<>>
Some(v) == <<v>>
IsNone(o) == Len(o) = 0
Val(o) == o[1]

Range(s) == {s[i] : i \in 1..Len(s)}

\* all orderings of a finite set, as duplicate-free sequences
Orderings(S) == {s \in [1..Cardinality(S) -> S] : Range(s) = S}

\* list + list
Concat(a, b) == a \o b

\* x in list
InList(x, l) == \E i \in 1..Len(l) : l[i] = x

\* list(set(l)): the distinct elements of l, in the iteration order of the
\* set, which Python leaves to the hash layout; ord is that order.
ListOfSet(l, ord) == SelectSeq(ord, LAMBDA t : InList(t, l))

(***************************************************************************)
(* Names                                                                   *)
(***************************************************************************)
LOADER_TOOL_NAME == "tool_load_skill"

\* tools registered with the agent besides the loader
AgentTools == <<"x", "y", "z">>
\* every tool name a skill may declare ("q" is declared but not registered)
ToolUniverse == {"x", "y", "z", "q"}
HashOrders == Orderings(ToolUniverse)

\* the agent's tool pool handed to every model request: the agent's own tools
\* followed by the tools the middleware contributes
RegisteredTools == Concat(AgentTools, <<LOADER_TOOL_NAME>>)

(***************************************************************************)
(* Skill storage.  A skill is a SkillMetadata dictionary.                  *)
(***************************************************************************)
Skill(n, d, c, at) == [name |-> n, description |-> d, content |-> c, allowed_tools |-> at]

SkillA  == Skill("A", "dA", "bodyA", Some(<<"x", "y">>))
SkillA2 == Skill("A", "dA", "bodyA2", Some(<<"x", "q">>))
SkillB  == Skill("B", "dB", "bodyB", Some(<<"y", "z">>))
SkillC  == Skill("C", "dC", "bodyC", None)

\* the contents the skills directory may have
Stores ==
    { <<>>, <<SkillB, SkillC>>, <<SkillA2>>, <<SkillA, SkillB, SkillC>> }

\* names a model may pass to the loader
RequestedNames == {"A", "B", "C", "nonexistent"}

\* util_skills.list_skills: one SkillMetadata per skill definition of the
\* directory, in directory order
list_skills(dir) == dir

(***************************************************************************)
(* Messages                                                                *)
(***************************************************************************)
Message(t, c, calls, id) == [type |-> t, content |-> c, tool_calls |-> calls, tool_call_id |-> id]
HumanMessage(c) == Message("human", c, <<>>, 0)
AIMessage(c, calls) == Message("ai", c, calls, 0)
ToolMessage(c, id) == Message("tool", c, <<>>, id)

ToolCall(n, a) == [name |-> n, args |-> a]

\* ", ".join(names)
RECURSIVE Join(_)
Join(names) ==
    IF Len(names) = 0 THEN <<>>
    ELSE IF Len(names) = 1 THEN <<names[1]>>
    ELSE <<names[1], ", ">> \o Join(Tail(names))

(***************************************************************************)
(* The capability gate                                                     *)
(***************************************************************************)
ToolUpdate(tools, step) == [allowed_tools |-> tools, step_num |-> step]

\* skills_reducer with the same-step branch keeping only the update
skills_reducer_NoUnion(current, update, ord) ==
    Some(update)

\* skills_reducer with the new-step branch adding to the old tool set
skills_reducer_Accumulate(current, update, ord) ==
    IF IsNone(current) THEN Some(update)
    ELSE Some(ToolUpdate(
             ListOfSet(Concat(Val(current).allowed_tools, update.allowed_tools), ord),
             update.step_num))

\* skills_reducer counting a same-step merge as a new step
skills_reducer_BumpsStep(current, update, ord) ==
    IF IsNone(current) THEN Some(update)
    ELSE IF update.step_num = Val(current).step_num
         THEN Some(ToolUpdate(
                  ListOfSet(Concat(Val(current).allowed_tools, update.allowed_tools), ord),
                  update.step_num + 1))
         ELSE Some(update)

\* skills_reducer ignoring an update that carries an older step
skills_reducer_KeepsNewer(current, update, ord) ==
    IF IsNone(current) THEN Some(update)
    ELSE IF update.step_num = Val(current).step_num
         THEN Some(ToolUpdate(
                  ListOfSet(Concat(Val(current).allowed_tools, update.allowed_tools), ord),
                  update.step_num))
         ELSE IF update.step_num < Val(current).step_num
              THEN current
              ELSE Some(update)

\* skills_reducer(current, update); ord is the iteration order of the set
\* built in the same-step branch
skills_reducer(current, update, ord) ==
    IF IsNone(current) THEN Some(update)
    ELSE IF update.step_num = Val(current).step_num
         THEN Some(ToolUpdate(
                  ListOfSet(Concat(Val(current).allowed_tools, update.allowed_tools), ord),
                  update.step_num))
         ELSE Some(update)

\* (skill.get("allowed_tools") or "").split()
DeclaredTools(skill) ==
    IF IsNone(skill.allowed_tools) THEN <<>> ELSE Val(skill.allowed_tools)

\* index of the first skill of the list with that name, 0 when there is none
FirstMatch(skills, skill_name) ==
    IF \E i \in 1..Len(skills) : skills[i].name = skill_name
    THEN CHOOSE i \in 1..Len(skills) :
            /\ skills[i].name = skill_name
            /\ \A j \in 1..(i - 1) : skills[j].name # skill_name
    ELSE 0

Command(msgs, upd) == [messages |-> msgs, allowed_tools_data |-> upd]

\* tool_load_skill granting an empty tool set when the skill is not found
tool_load_skill_MissGrants(skill_name, skills, msgs, tool_call_id) ==
    LET i == FirstMatch(skills, skill_name) IN
    IF i # 0
    THEN Command(
            <<ToolMessage(<<"Loaded skill: ", skill_name, "\n\n", skills[i].content>>,
                          tool_call_id)>>,
            Some(ToolUpdate(DeclaredTools(skills[i]), Len(msgs))))
    ELSE Command(
            <<ToolMessage(<<"Skill '", skill_name, "' not found. Available skills: ">>
                              \o Join([k \in 1..Len(skills) |-> skills[k].name]),
                          tool_call_id)>>,
            Some(ToolUpdate(<<>>, Len(msgs))))

\* tool_load_skill counting the messages without the assistant message that
\* carries the call
tool_load_skill_StaleStep(skill_name, skills, msgs, tool_call_id) ==
    LET i == FirstMatch(skills, skill_name) IN
    IF i # 0
    THEN Command(
            <<ToolMessage(<<"Loaded skill: ", skill_name, "\n\n", skills[i].content>>,
                          tool_call_id)>>,
            Some(ToolUpdate(DeclaredTools(skills[i]), Len(msgs) - 1)))
    ELSE Command(
            <<ToolMessage(<<"Skill '", skill_name, "' not found. Available skills: ">>
                              \o Join([k \in 1..Len(skills) |-> skills[k].name]),
                          tool_call_id)>>,
            None)

\* tool_load_skill numbering every call of a batch with a step of its own
tool_load_skill_StepPerCall(skill_name, skills, msgs, tool_call_id) ==
    LET i == FirstMatch(skills, skill_name) IN
    IF i # 0
    THEN Command(
            <<ToolMessage(<<"Loaded skill: ", skill_name, "\n\n", skills[i].content>>,
                          tool_call_id)>>,
            Some(ToolUpdate(DeclaredTools(skills[i]), Len(msgs) + tool_call_id - 1)))
    ELSE Command(
            <<ToolMessage(<<"Skill '", skill_name, "' not found. Available skills: ">>
                              \o Join([k \in 1..Len(skills) |-> skills[k].name]),
                          tool_call_id)>>,
            None)

\* tool_load_skill sending no grant when the skill declares no tools
tool_load_skill_SkipsEmptyGrant(skill_name, skills, msgs, tool_call_id) ==
    LET i == FirstMatch(skills, skill_name) IN
    IF i # 0
    THEN Command(
            <<ToolMessage(<<"Loaded skill: ", skill_name, "\n\n", skills[i].content>>,
                          tool_call_id)>>,
            IF DeclaredTools(skills[i]) = <<>>
            THEN None
            ELSE Some(ToolUpdate(DeclaredTools(skills[i]), Len(msgs))))
    ELSE Command(
            <<ToolMessage(<<"Skill '", skill_name, "' not found. Available skills: ">>
                              \o Join([k \in 1..Len(skills) |-> skills[k].name]),
                          tool_call_id)>>,
            None)

\* tool_load_skill(skill_name, runtime): the Command it returns, given the
\* state the runtime carries and the id of the tool call
tool_load_skill(skill_name, skills, msgs, tool_call_id) ==
    LET i == FirstMatch(skills, skill_name) IN
    IF i # 0
    THEN Command(
            <<ToolMessage(<<"Loaded skill: ", skill_name, "\n\n", skills[i].content>>,
                          tool_call_id)>>,
            Some(ToolUpdate(DeclaredTools(skills[i]), Len(msgs))))
    ELSE Command(
            <<ToolMessage(<<"Skill '", skill_name, "' not found. Available skills: ">>
                              \o Join([k \in 1..Len(skills) |-> skills[k].name]),
                          tool_call_id)>>,
            None)

\* any other tool of the pool: a plain tool result, no state update
other_tool(name, tool_call_id) ==
    Command(<<ToolMessage(<<"result of ", name>>, tool_call_id)>>, None)

\* the filter passing the whole pool on
filtered_tools_Unfiltered(tools, tool_data) == tools

\* the filter without the clause that keeps the loader
filtered_tools_NoLoader(tools, tool_data) ==
    LET allowed_tools_names == IF IsNone(tool_data) THEN <<>> ELSE Val(tool_data).allowed_tools IN
    SelectSeq(tools, LAMBDA t : InList(t, allowed_tools_names))

\* the filter taking an absent gate for "no restriction"
filtered_tools_NoneAllowsAll(tools, tool_data) ==
    IF IsNone(tool_data) THEN tools
    ELSE SelectSeq(tools, LAMBDA t : InList(t, Val(tool_data).allowed_tools) \/ t = LOADER_TOOL_NAME)

\* the filter of SkillsMiddleware.wrap_model_call / awrap_model_call
filtered_tools(tools, tool_data) ==
    LET allowed_tools_names == IF IsNone(tool_data) THEN <<>> ELSE Val(tool_data).allowed_tools IN
    SelectSeq(tools, LAMBDA t : InList(t, allowed_tools_names) \/ t = LOADER_TOOL_NAME)


\* SkillsMiddleware._format_skills_list: one line per skill, joined by "\n"
_format_skills_list(skills) ==
    [k \in 1..Len(skills) |-> <<"- **", skills[k].name, "**: ", skills[k].description>>]

(***************************************************************************)
(* The language guard                                                      *)
(***************************************************************************)
LangEn == <<"e", "n">>
LangZhCn == <<"z", "h", "-", "c", "n">>
LangZhTw == <<"z", "h", "-", "t", "w">>
LangFi == <<"f", "i">>
LangFil == <<"f", "i", "l">>

\* texts a user or the model may write; "bad" is content the classifier
\* raises on
Texts == {"hello", "nihao", "neiho", "moi", "kumusta"}
HumanContents == {<<t>> : t \in Texts \cup {"bad"}}
AIContents == {<<>>} \cup {<<t>> : t \in Texts \cup {"bad"}}

\* the contents exchanged in the conversations explored for the gate: an
\* English and a Chinese request, an empty and an English answer
ChatHumanContents == {<<"hello">>, <<"nihao">>}
ChatAIContents == {<<>>, <<"hello">>}

\* langid.classify(text)[0]: Some(code), or None when it raises
classify(content) ==
    IF content = <<"hello">> THEN Some(LangEn)
    ELSE IF content = <<"nihao">> THEN Some(LangZhCn)
    ELSE IF content = <<"neiho">> THEN Some(LangZhTw)
    ELSE IF content = <<"moi">> THEN Some(LangFi)
    ELSE IF content = <<"kumusta">> THEN Some(LangFil)
    ELSE None

\* code.split('-')[0]
RECURSIVE PrimarySubtag(_)
PrimarySubtag(code) ==
    IF Len(code) = 0 \/ code[1] = "-" THEN <<>>
    ELSE <<code[1]>> \o PrimarySubtag(Tail(code))

\* s.startswith(prefix)
StartsWith(s, prefix) ==
    /\ Len(prefix) <= Len(s)
    /\ SubSeq(s, 1, Len(prefix)) = prefix

(***************************************************************************)
(* State                                                                   *)
(***************************************************************************)
VARIABLES
    store,               \* the skills directory
    tool_pool,           \* request.tools: the tools registered with the agent
    messages,            \* state["messages"]
    skills_metadata,     \* state["skills_metadata"], Optional
    allowed_tools_data,  \* state["allowed_tools_data"], Optional[ToolUpdate]
    user_lang_code,      \* state["user_lang_code"], Optional
    translate_call,      \* the call of _translate_text the last after_agent made, Optional
    pc,                  \* the node of the agent graph that runs next
    request,             \* the request the last model call handed to the model, Optional
    tool_calls,          \* the tool calls dispatched by the last assistant message
    writes,              \* per dispatched call: the Command it returned, Optional
    applied              \* the calls whose Command has been merged into the state

\* the state of a research call (tool_web_search of util_tools.py, web_search
\* of skills/web-search/scripts/web_search.py)
VARIABLES
    variant,             \* which of the two implementations runs: "tool" or "script"
    ncalls,              \* research calls started so far
    rpc,                 \* position of the research call
    search_urls,         \* the local search_urls, Optional
    browser,             \* the local browser: "unbound", "running" or "stopped"
    stop_count,          \* invocations of browser.stop() in this call
    tasks,               \* the fetch_page_content coroutines handed to gather
    results,             \* what gather returned, Optional
    md_texts,            \* the corpus, one entry per page that entered it
    vectorstore,         \* the documents of the vector index built last
    pending,             \* the value the try block or the handler returns, Optional
    outcome,             \* what the caller received, Optional
    events               \* what the collaborators did in this call

\* The package skills (skills/__init__.py) while it is imported.
VARIABLES
    tool_mapping,        \* _TOOL_MAPPING: the entries in mapping order, each with what its load does
    next_entry,          \* position of the loop in the mapping
    tools_list,          \* tools_list
    all_names,           \* __all__
    warnings,            \* the names printed in a warning
    import_state         \* "unimported", "running", "done" or "raised"

\* A call of the video-text operation (tool_get_video_text_content of
\* util_tools.py, get_video_text_content of web_api.py and of
\* skills/get-video-text-content/scripts/get_video_text_content.py).
VARIABLES
    video_variant,       \* which implementation runs: "tool", "api" or "script"
    video_calls,         \* calls of the operation started so far
    vpc,                 \* position of the call
    audio_path,          \* the local audio_path, Optional (unbound before its assignment)
    video_texts,         \* the local video_texts, Optional
    disk,                \* the temporary files that exist
    unlinks,             \* the arguments of the os.unlink calls of this call, in order
    video_pending,       \* the value the try block or the handler returns, Optional
    video_outcome,       \* what the caller received, Optional
    video_events         \* what download and transcription did in this call

convVars == <<store, tool_pool, messages, skills_metadata, allowed_tools_data, user_lang_code,
              translate_call, pc, request, tool_calls, writes, applied>>

searchVars == <<variant, ncalls, rpc, search_urls, browser, stop_count, tasks, results,
                md_texts, vectorstore, pending, outcome, events>>

registryVars == <<tool_mapping, next_entry, tools_list, all_names, warnings, import_state>>
videoVars == <<video_variant, video_calls, vpc, audio_path, video_texts, disk, unlinks,
               video_pending, video_outcome, video_events>>
vars == <<convVars, searchVars, registryVars, videoVars>>

\* the locals of a research call before it starts
NoEvents == [planner |-> "-", browser |-> "-", rag |-> "-"]

FreshCall ==
    /\ search_urls = None
    /\ browser = "unbound"
    /\ stop_count = 0
    /\ tasks = <<>>
    /\ results = None
    /\ md_texts = <<>>
    /\ pending = None
    /\ outcome = None
    /\ events = NoEvents

\* no research call is running and none has run
RegistryIdle ==
    /\ tool_mapping = <<>> /\ next_entry = 1 /\ tools_list = <<>> /\ all_names = <<>>
    /\ warnings = <<>> /\ import_state = "unimported"

\* the locals of a call of the video-text operation before it starts
NoVideoEvents == [download |-> "-", transcribe |-> "-"]

\* no call of the video-text operation is running and none has run
VideoIdle ==
    /\ video_variant = "tool"
    /\ video_calls = 0
    /\ vpc = "idle"
    /\ audio_path = None
    /\ video_texts = None
    /\ disk = {}
    /\ unlinks = <<>>
    /\ video_pending = None
    /\ video_outcome = None
    /\ video_events = NoVideoEvents

SearchIdle ==
    /\ variant = "tool"
    /\ ncalls = 0
    /\ rpc = "idle"
    /\ vectorstore = <<>>
    /\ FreshCall

\* state.get("skills_metadata", [])
SkillsOfState == IF IsNone(skills_metadata) THEN <<>> ELSE Val(skills_metadata)

Init ==
    /\ store \in Stores
    /\ tool_pool = RegisteredTools
    /\ messages = <<>>
    /\ skills_metadata = None
    /\ allowed_tools_data = None
    /\ user_lang_code = None
    /\ translate_call = None
    /\ pc = "idle"
    /\ request = None
    /\ tool_calls = <<>>
    /\ writes = <<>>
    /\ applied = {}
    /\ SearchIdle
    /\ RegistryIdle
    /\ VideoIdle

(***************************************************************************)
(* Actions                                                                 *)
(***************************************************************************)
\* somebody edits the skills directory, between two turns or while a turn is
\* in flight: the middleware holds no lock on it
EditStore ==
    /\ Len(messages) > 0
    /\ \E s \in Stores \ {store} : store' = s
    /\ UNCHANGED <<tool_pool, messages, skills_metadata, allowed_tools_data, user_lang_code,
                   pc, request, tool_calls, writes, applied>>
    /\ UNCHANGED <<translate_call, searchVars, registryVars, videoVars>>

\* agent.invoke({"messages": [user message]})
UserTurnOf(contents, limit) ==
    /\ pc = "idle"
    /\ Len(messages) + 2 <= limit
    /\ \E c \in contents : messages' = Append(messages, HumanMessage(c))
    /\ pc' = "skills_before_agent"
    /\ translate_call' = None
    /\ UNCHANGED <<store, tool_pool, skills_metadata, allowed_tools_data, user_lang_code,
                   request, tool_calls, writes, applied>>
    /\ UNCHANGED <<searchVars, registryVars, videoVars>>

UserTurn == UserTurnOf(ChatHumanContents, MaxMsgs)

\* before_agent reading the directory only when the state has no skill list
SkillsBeforeAgent_Cached ==
    /\ pc = "skills_before_agent"
    /\ skills_metadata' = IF IsNone(skills_metadata) THEN Some(list_skills(store))
                          ELSE skills_metadata
    /\ pc' = "translate_before_agent"
    /\ UNCHANGED <<store, tool_pool, messages, allowed_tools_data, user_lang_code,
                   request, tool_calls, writes, applied>>
    /\ UNCHANGED <<translate_call, searchVars, registryVars, videoVars>>

\* before_agent with its reset of the allowed tools taking effect
SkillsBeforeAgent_Reset ==
    /\ pc = "skills_before_agent"
    /\ skills_metadata' = Some(list_skills(store))
    /\ allowed_tools_data' = None
    /\ pc' = "translate_before_agent"
    /\ UNCHANGED <<store, tool_pool, messages, user_lang_code,
                   request, tool_calls, writes, applied>>
    /\ UNCHANGED <<translate_call, searchVars, registryVars, videoVars>>

\* SkillsMiddleware.before_agent: its update carries skills_metadata and a key
\* allowed_tools that is no channel of SkillsState
SkillsBeforeAgent ==
    /\ pc = "skills_before_agent"
    /\ skills_metadata' = Some(list_skills(store))
    /\ pc' = "translate_before_agent"
    /\ UNCHANGED <<store, tool_pool, messages, allowed_tools_data, user_lang_code,
                   request, tool_calls, writes, applied>>
    /\ UNCHANGED <<translate_call, searchVars, registryVars, videoVars>>

\* a before_agent that stores nothing when the classification fails
TranslateBeforeAgent_KeepsOnFailure ==
    /\ pc = "translate_before_agent"
    /\ LET lang_code == classify(messages[Len(messages)].content) IN
       user_lang_code' = IF IsNone(lang_code) THEN user_lang_code ELSE lang_code
    /\ pc' = "model"
    /\ UNCHANGED <<store, tool_pool, messages, skills_metadata, allowed_tools_data,
                   request, tool_calls, writes, applied>>
    /\ UNCHANGED <<translate_call, searchVars, registryVars, videoVars>>

\* FinalTranslateMiddleware.before_agent
TranslateBeforeAgent ==
    /\ pc = "translate_before_agent"
    /\ LET lang_code == classify(messages[Len(messages)].content) IN
       user_lang_code' = IF IsNone(lang_code) THEN Some(LangEn) ELSE lang_code
    /\ pc' = "model"
    /\ UNCHANGED <<store, tool_pool, messages, skills_metadata, allowed_tools_data,
                   request, tool_calls, writes, applied>>
    /\ UNCHANGED <<translate_call, searchVars, registryVars, videoVars>>

\* the calls a model may issue when it is offered the tools of the list
CallOptions(tools) ==
    {ToolCall(t, "-") : t \in Range(tools) \ {LOADER_TOOL_NAME}}
    \cup {ToolCall(LOADER_TOOL_NAME, n) : n \in {m \in RequestedNames : InList(LOADER_TOOL_NAME, tools)}}

CallLists(tools) ==
    UNION {[1..n -> CallOptions(tools)] : n \in 0..MaxCalls}

\* a middleware that keeps the tool list it computed at its first invocation
OfferedTools_Cached ==
    IF IsNone(request) THEN filtered_tools(tool_pool, allowed_tools_data)
    ELSE Val(request).tools

\* the tool list wrap_model_call computes from request.tools and
\* request.state at the invocation
OfferedTools == filtered_tools(tool_pool, allowed_tools_data)

\* SkillsMiddleware.wrap_model_call followed by the model's answer
ModelCallOf(contents) ==
    /\ pc = "model"
    /\ Len(messages) + 1 <= MaxMsgs
    /\ LET tools == OfferedTools IN
       /\ request' = Some([tools |-> tools, skills_list |-> _format_skills_list(SkillsOfState)])
       /\ \E calls \in CallLists(tools) :
            /\ Len(messages) + 1 + Len(calls) <= MaxMsgs
            /\ tool_calls' = calls
            /\ writes' = [i \in 1..Len(calls) |-> None]
            /\ IF Len(calls) = 0
               THEN /\ \E c \in contents : messages' = Append(messages, AIMessage(c, calls))
                    /\ pc' = "after_agent"
               ELSE /\ messages' = Append(messages, AIMessage(<<>>, calls))
                    /\ pc' = "tools"
    /\ applied' = {}
    /\ UNCHANGED <<store, tool_pool, skills_metadata, allowed_tools_data, user_lang_code>>
    /\ UNCHANGED <<translate_call, searchVars, registryVars, videoVars>>

ModelCall == ModelCallOf(ChatAIContents)

\* the tool node runs call i on the state the calls were dispatched with
ExecTool(i) ==
    /\ pc = "tools"
    /\ i \in 1..Len(tool_calls)
    /\ IsNone(writes[i])
    /\ writes' = [writes EXCEPT ![i] =
          Some(IF tool_calls[i].name = LOADER_TOOL_NAME
               THEN tool_load_skill(tool_calls[i].args, SkillsOfState, messages, i)
               ELSE other_tool(tool_calls[i].name, i))]
    /\ UNCHANGED <<store, tool_pool, messages, skills_metadata, allowed_tools_data, user_lang_code,
                   pc, request, tool_calls, applied>>
    /\ UNCHANGED <<translate_call, searchVars, registryVars, videoVars>>

\* the iteration orders the set built by the reducer may have: the orders of
\* the names it holds
MergeOrders(current, update) ==
    Orderings(Range(update.allowed_tools)
                 \cup (IF IsNone(current) THEN {} ELSE Range(Val(current).allowed_tools)))

\* the runtime merges the Command of call i into the state, once every call of
\* the batch has returned
ApplyWrite(i) ==
    /\ pc = "tools"
    /\ i \in 1..Len(tool_calls)
    /\ i \notin applied
    /\ \A j \in 1..Len(tool_calls) : ~IsNone(writes[j])
    /\ LET cmd == Val(writes[i]) IN
       /\ messages' = Concat(messages, cmd.messages)
       /\ IF IsNone(cmd.allowed_tools_data)
          THEN allowed_tools_data' = allowed_tools_data
          ELSE \E ord \in MergeOrders(allowed_tools_data, Val(cmd.allowed_tools_data)) :
                  allowed_tools_data' =
                      skills_reducer(allowed_tools_data, Val(cmd.allowed_tools_data), ord)
    /\ applied' = applied \cup {i}
    /\ pc' = IF applied' = 1..Len(tool_calls) THEN "model" ELSE "tools"
    /\ UNCHANGED <<store, tool_pool, skills_metadata, user_lang_code, request, tool_calls, writes>>
    /\ UNCHANGED <<translate_call, searchVars, registryVars, videoVars>>

\* FinalTranslateMiddleware._translate_text: the texts it may return, or its
\* failure
TranslateOutcomes == {Some(<<t>>) : t \in Texts} \cup {None}
ChatTranslateOutcomes == {Some(<<"nihao">>), None}

\* a guard that blanks the message when the translation fails
content_after_Blank(content, out) == IF IsNone(out) THEN <<>> ELSE Val(out)

\* last_message.content once the try block is left: assigned the translation,
\* or left alone when _translate_text raised
content_after(content, out) == IF IsNone(out) THEN content ELSE Val(out)

\* FinalTranslateMiddleware.after_agent
TranslateAfterAgentOf(outcomes) ==
    /\ pc = "after_agent"
    /\ LET target_lang == IF IsNone(user_lang_code) THEN LangEn ELSE Val(user_lang_code)
           n == Len(messages)
           last_message == messages[n]
           response_lang == classify(last_message.content)
       IN
       IF last_message.type # "ai" \/ last_message.content = <<>>
       THEN messages' = messages /\ translate_call' = None
       ELSE IF IsNone(response_lang)
       THEN messages' = messages /\ translate_call' = None
       ELSE IF ~StartsWith(Val(response_lang), PrimarySubtag(target_lang))
       THEN \E out \in outcomes :
               /\ translate_call' = Some([text |-> last_message.content,
                                          target_language |-> target_lang,
                                          result |-> out])
               /\ messages' = [messages EXCEPT
                                  ![n].content = content_after(last_message.content, out)]
       ELSE messages' = messages /\ translate_call' = None
    /\ pc' = "idle"
    /\ UNCHANGED <<store, tool_pool, skills_metadata, allowed_tools_data, user_lang_code,
                   request, tool_calls, writes, applied>>
    /\ UNCHANGED <<searchVars, registryVars, videoVars>>

TranslateAfterAgent == TranslateAfterAgentOf(ChatTranslateOutcomes)

Next ==
    \/ EditStore
    \/ UserTurn
    \/ SkillsBeforeAgent
    \/ TranslateBeforeAgent
    \/ ModelCall
    \/ \E i \in 1..MaxCalls : ExecTool(i)
    \/ \E i \in 1..MaxCalls : ApplyWrite(i)
    \/ TranslateAfterAgent

Spec == Init /\ [][Next]_vars

(***************************************************************************)
(* The filter on its own: any tool pool, any gate state                    *)
(***************************************************************************)
SeqsUpTo(S, n) == UNION {[1..k -> S] : k \in 0..n}

ToolLists == SeqsUpTo({"x", "y", "q", LOADER_TOOL_NAME}, MaxPool)
GateStates ==
    {None} \cup {Some(ToolUpdate(l, 1)) : l \in SeqsUpTo({"x", "y", "z", LOADER_TOOL_NAME}, MaxAllowed)}

InitFilter ==
    /\ store = <<>>
    /\ tool_pool \in ToolLists
    /\ messages = <<HumanMessage(<<"hello">>)>>
    /\ skills_metadata = Some(<<>>)
    /\ allowed_tools_data \in GateStates
    /\ user_lang_code = Some(LangEn)
    /\ translate_call = None
    /\ pc = "model"
    /\ request = None
    /\ tool_calls = <<>>
    /\ writes = <<>>
    /\ applied = {}
    /\ SearchIdle
    /\ RegistryIdle
    /\ VideoIdle

\* wrap_model_call up to the call of the handler
FilterCall ==
    /\ pc = "model"
    /\ request' = Some([tools |-> filtered_tools(tool_pool, allowed_tools_data),
                        skills_list |-> _format_skills_list(SkillsOfState)])
    /\ pc' = "handler"
    /\ UNCHANGED <<store, tool_pool, messages, skills_metadata, allowed_tools_data,
                   user_lang_code, tool_calls, writes, applied>>
    /\ UNCHANGED <<translate_call, searchVars, registryVars, videoVars>>

NextFilter == FilterCall

SpecFilter == InitFilter /\ [][NextFilter]_vars


(***************************************************************************)
(* Vocabulary of the properties                                            *)
(***************************************************************************)
\* number of messages the state held when the current batch of tool calls was
\* dispatched: every merged Command has appended exactly one message since
DispatchLen == Len(messages) - Cardinality(applied)

IsLoad(i) == tool_calls[i].name = LOADER_TOOL_NAME
\* call i is a load whose name matches a skill of the conversation's list
Hit(i) == IsLoad(i) /\ \E k \in 1..Len(SkillsOfState) : SkillsOfState[k].name = tool_calls[i].args
\* call i is a load whose name matches no skill
Miss(i) == IsLoad(i) /\ \A k \in 1..Len(SkillsOfState) : SkillsOfState[k].name # tool_calls[i].args
LoadedSkill(i) == SkillsOfState[FirstMatch(SkillsOfState, tool_calls[i].args)]

Returned(i) == i \in DOMAIN writes /\ ~IsNone(writes[i])
Cmd(i) == Val(writes[i])
Grant(i) == Val(Cmd(i).allowed_tools_data)

AllowedSet == IF IsNone(allowed_tools_data) THEN {} ELSE Range(Val(allowed_tools_data).allowed_tools)

IsLoadedMessage(m) == m.type = "tool" /\ Len(m.content) > 0 /\ m.content[1] = "Loaded skill: "
IsNotFoundMessage(m) == m.type = "tool" /\ Len(m.content) > 0 /\ m.content[1] = "Skill '"
NoLoadYet == \A k \in 1..Len(messages) : ~IsLoadedMessage(messages[k])

\* the step that merges the Command of call i
Merges(i) ==
    /\ pc = "tools"
    /\ Returned(i)
    /\ i \notin applied
    /\ applied' = applied \cup {i}

(***************************************************************************)
(* C1: once the successful loads of one batch (all carrying the same step) *)
(* have been merged, in whatever order, allowedTools is, as a set, the     *)
(* union of the declared tools of the skills loaded, and lastUpdateStep is *)
(* the step the grants carry.                                              *)
(***************************************************************************)
C1_SameStepUnion ==
    LET G == {i \in applied : Hit(i)} IN
    G # {} =>
        /\ ~IsNone(allowed_tools_data)
        /\ AllowedSet = UNION {Range(DeclaredTools(LoadedSkill(i))) : i \in G}
        /\ \A i \in G : Val(allowed_tools_data).step_num = Grant(i).step_num

\* A and B loaded in one batch at step 4, after an earlier load at step 2
C1_Witness ==
    /\ Len(tool_calls) = 2
    /\ applied = {1, 2}
    /\ IsLoad(1) /\ IsLoad(2)
    /\ {tool_calls[1].args, tool_calls[2].args} = {"A", "B"}
    /\ Len(messages) = 6
    /\ IsLoadedMessage(messages[3])
    /\ AllowedSet = {"x", "y", "z"}
    /\ Val(allowed_tools_data).step_num = 4

(***************************************************************************)
(* C2: merging a grant whose step differs from lastUpdateStep leaves       *)
(* exactly the grant: its tool set and its step, nothing of the old set.   *)
(***************************************************************************)
C2_NewStepReplaces ==
    [][\A i \in DOMAIN writes :
          ( /\ Merges(i)
            /\ ~IsNone(Cmd(i).allowed_tools_data)
            /\ ~IsNone(allowed_tools_data)
            /\ Grant(i).step_num # Val(allowed_tools_data).step_num )
          => allowed_tools_data' = Some(Grant(i))]_vars

\* A ({x,y}) was loaded at step 2, B at step 4: x is no longer allowed
C2_Witness ==
    /\ Len(messages) >= 5
    /\ messages[3].type = "tool"
    /\ messages[3].content = <<"Loaded skill: ", "A", "\n\n", "bodyA">>
    /\ ~IsNone(allowed_tools_data)
    /\ Val(allowed_tools_data) = ToolUpdate(<<"y", "z">>, 4)

(***************************************************************************)
(* C3: allowedTools is always a subset of the union of the declared tools  *)
(* of the skills of the conversation's skill list, also after the list has *)
(* been re-read with a skill removed or changed.                           *)
(***************************************************************************)
C3_AllowedWithinSkillList ==
    AllowedSet \subseteq
        UNION {Range(DeclaredTools(SkillsOfState[k])) : k \in 1..Len(SkillsOfState)}

(***************************************************************************)
(* C4: the tools handed to the model are exactly the tools of the pool     *)
(* that are allowed or are the loader, for any pool and any gate state.    *)
(***************************************************************************)
C4_FilterExact ==
    ~IsNone(request) =>
        Range(Val(request).tools) =
            {t \in Range(tool_pool) : t \in AllowedSet \/ t = LOADER_TOOL_NAME}

\* x allowed and in the pool, q in the pool but not allowed, z allowed but
\* not in the pool
C4_Witness ==
    /\ ~IsNone(request)
    /\ tool_pool = <<"x", "q", LOADER_TOOL_NAME>>
    /\ allowed_tools_data = Some(ToolUpdate(<<"x", "z">>, 1))
    /\ Val(request).tools = <<"x", LOADER_TOOL_NAME>>

(***************************************************************************)
(* C5: the loader tool is among the tools handed to the model at every     *)
(* model invocation of a conversation.                                     *)
(***************************************************************************)
C5_LoaderAlwaysOffered ==
    ~IsNone(request) => InList(LOADER_TOOL_NAME, Val(request).tools)

\* a model invocation after a successful and a failed load
C5_Witness ==
    /\ ~IsNone(request)
    /\ Len(Val(request).tools) > 1
    /\ InList(LOADER_TOOL_NAME, Val(request).tools)
    /\ \E k \in 1..Len(messages) : IsNotFoundMessage(messages[k])
    /\ pc = "after_agent"

(***************************************************************************)
(* C6: as long as no load has succeeded in the conversation, the gate is   *)
(* absent and a model invocation is handed the loader and nothing else.    *)
(***************************************************************************)
C6_InitiallyOnlyLoader ==
    NoLoadYet =>
        /\ IsNone(allowed_tools_data)
        /\ ~IsNone(request) => Val(request).tools = <<LOADER_TOOL_NAME>>

\* a model invocation after a failed load only
C6_Witness ==
    /\ NoLoadYet
    /\ \E k \in 1..Len(messages) : IsNotFoundMessage(messages[k])
    /\ pc = "after_agent"
    /\ ~IsNone(request)
    /\ Val(request).tools = <<LOADER_TOOL_NAME>>

\* what a load that matches no skill returns
C7_MissReturn ==
    \A i \in DOMAIN writes :
        (Returned(i) /\ Miss(i)) =>
            /\ IsNone(Cmd(i).allowed_tools_data)
            /\ Len(Cmd(i).messages) = 1
            /\ LET m == Cmd(i).messages[1] IN
               /\ m.type = "tool"
               /\ m.tool_call_id = i
               /\ SubSeq(m.content, 1, 3) = <<"Skill '", tool_calls[i].args, "' not found. Available skills: ">>
               /\ SelectSeq(SubSeq(m.content, 4, Len(m.content)), LAMBDA piece : piece # ", ")
                    = [k \in 1..Len(SkillsOfState) |-> SkillsOfState[k].name]

\* what the merge of such a return does to the state
C7_MissKeepsGate ==
    [][\A i \in DOMAIN writes :
          (Merges(i) /\ Miss(i)) =>
              /\ allowed_tools_data' = allowed_tools_data
              /\ messages' = Concat(messages, Cmd(i).messages)]_vars

(***************************************************************************)
(* C7: a load whose name matches no skill returns one tool message that    *)
(* lists the names of all skills of the list, carries no grant, and its    *)
(* merge leaves the gate as it was.                                        *)
(***************************************************************************)
C7_MissLeavesGate == []C7_MissReturn /\ C7_MissKeepsGate

\* a failed load merged while tools are allowed and three skills are listed
C7_Witness ==
    /\ Len(tool_calls) >= 1
    /\ 1 \in applied
    /\ Miss(1)
    /\ Len(SkillsOfState) = 3
    /\ AllowedSet = {"x", "y"}
    /\ IsNotFoundMessage(messages[Len(messages)])

(***************************************************************************)
(* C8: a load whose name matches a skill returns one grant, with that      *)
(* skill's declared tools and the number of messages at dispatch as step,  *)
(* and one tool message with the skill's content; once merged, the gate    *)
(* carries that step and allows the declared tools.                        *)
(***************************************************************************)
C8_HitGrants ==
    \A i \in DOMAIN writes :
        (Returned(i) /\ Hit(i)) =>
            /\ Cmd(i).allowed_tools_data =
                  Some(ToolUpdate(DeclaredTools(LoadedSkill(i)), DispatchLen))
            /\ Len(Cmd(i).messages) = 1
            /\ LET m == Cmd(i).messages[1] IN
               /\ m.type = "tool"
               /\ m.tool_call_id = i
               /\ m.content[2] = tool_calls[i].args
               /\ m.content[Len(m.content)] = LoadedSkill(i).content
            /\ i \in applied =>
                  /\ ~IsNone(allowed_tools_data)
                  /\ Val(allowed_tools_data).step_num = DispatchLen
                  /\ Range(DeclaredTools(LoadedSkill(i))) \subseteq AllowedSet

\* the changed skill A (tools x and q) loaded alone at step 2 and merged
C8_Witness ==
    /\ Len(tool_calls) = 1
    /\ applied = {1}
    /\ Hit(1)
    /\ tool_calls[1].args = "A"
    /\ allowed_tools_data = Some(ToolUpdate(<<"x", "q">>, 2))
    /\ messages[3].content = <<"Loaded skill: ", "A", "\n\n", "bodyA2">>

(***************************************************************************)
(* C9: every load of one assistant message carries the same step, the      *)
(* index of that message (the message count at dispatch); the gate left by *)
(* earlier assistant messages carries a smaller step, so the first grant   *)
(* of a batch replaces it and the further grants of the batch are unioned. *)
(***************************************************************************)
C9_StepIsTurn ==
    Len(tool_calls) > 0 =>
        /\ DispatchLen \in 1..Len(messages)
        /\ messages[DispatchLen].type = "ai"
        /\ messages[DispatchLen].tool_calls = tool_calls
        /\ \A i \in DOMAIN writes :
              (Returned(i) /\ Hit(i)) => Grant(i).step_num = DispatchLen
        /\ ~IsNone(allowed_tools_data) =>
              IF \E i \in applied : Hit(i)
              THEN /\ Val(allowed_tools_data).step_num = DispatchLen
                   /\ AllowedSet = UNION {Range(Grant(i).allowed_tools) : i \in {j \in applied : Hit(j)}}
              ELSE Val(allowed_tools_data).step_num < DispatchLen

\* A loaded by the first assistant message, B and C together by the second
C9_Witness ==
    /\ Len(tool_calls) = 2
    /\ applied = {1, 2}
    /\ Hit(1) /\ Hit(2)
    /\ {tool_calls[1].args, tool_calls[2].args} = {"B", "C"}
    /\ messages[3].content = <<"Loaded skill: ", "A", "\n\n", "bodyA">>
    /\ AllowedSet = {"y", "z"}
    /\ Val(allowed_tools_data).step_num = 4

(***************************************************************************)
(* C10: the gate changes only in the merge of a successful load: no other  *)
(* step (failed load, other tool, model invocation, catalog reload,        *)
(* language guard, user input, directory edit) alters it.                  *)
(***************************************************************************)
C10_OnlyLoadChangesGate ==
    [][allowed_tools_data' # allowed_tools_data =>
          \E i \in DOMAIN writes : Merges(i) /\ Hit(i)]_vars

\* a second user turn whose catalog reload and language detection have run,
\* the gate still being the one of step 2
C10_Witness ==
    /\ pc = "model"
    /\ Len(messages) = 5
    /\ messages[5].type = "human"
    /\ ~IsNone(allowed_tools_data)
    /\ Val(allowed_tools_data).step_num = 2
    /\ AllowedSet # {}


(***************************************************************************)
(* The research call: tool_web_search (util_tools.py, variant "tool") and  *)
(* web_search (skills/web-search/scripts/web_search.py, variant "script"). *)
(* The two differ in get_search_urls and RAG: the helpers of util_tools.py *)
(* return their error text, those of the script raise.                     *)
(*                                                                         *)
(* A Python value that is a str or a list is a record [kind, value]; the   *)
(* value of a str that the code iterates is the sequence of its            *)
(* characters, of any other str the sequence of its pieces.                *)
(***************************************************************************)
\* most result records the metasearch backend returns in the runs explored
MaxUrls == 2
\* most research calls one process makes
MaxResearch == 2
\* characters of an error text that are kept
MaxErrChars == 2

\* search_kwargs["k"] of the retriever
RetrieverK == 10
\* the length under which a page is dropped
MinContentLen == 500

StrVal(v) == [kind |-> "str", value |-> v]
ListVal(v) == [kind |-> "list", value |-> v]
Raised(v) == [kind |-> "raise", value |-> v]

Min(a, b) == IF a < b THEN a ELSE b
Reverse(l) == [i \in 1..Len(l) |-> l[Len(l) + 1 - i]]

\* f"Error getting search urls: {str(e)}", cut to its first characters
ErrorGettingSearchUrls == SubSeq(<<"E", "r", "r", "o", "r">>, 1, Min(MaxErrChars, 5))

\* what DDGS().text may do: raise, or return result records
AllUrls == <<"u1", "u2", "u3", "u4">>
SearchHit(u) == [href |-> u, title |-> "t"]
BackendOutcomes ==
    {None} \cup {Some([i \in 1..n |-> SearchHit(AllUrls[i])]) : n \in 0..Min(MaxUrls, 4)}
           \cup {Some(<<SearchHit(AllUrls[1]), SearchHit(AllUrls[1])>>)}

\* params["max_results"]
PlannerMaxResults == 10

\* get_search_urls(query) of the variant, given what the backend did:
\* the value it returns, or the exception it raises
get_search_urls(v, backend) ==
    IF ~IsNone(backend)
    THEN ListVal([i \in 1..Len(Val(backend)) |-> Val(backend)[i].href])
    ELSE IF v = "tool"
         THEN StrVal(ErrorGettingSearchUrls)
         ELSE Raised(<<"Error getting search urls: ", "e">>)

(***************************************************************************)
(* fetch_page_content                                                      *)
(***************************************************************************)
\* what a page may yield: a title and a text; a text is known by the page it
\* comes from, its length and the number of its heading sections
Content(t, l, n) == [text |-> t, len |-> l, nsec |-> n]
NO_CONTENT == Content("NO_CONTENT", 10, 1)
PageContents(url) ==
    {Content(url, MinContentLen - 1, 1), Content(url, MinContentLen, 1),
     Content(url, 6 * MinContentLen, 6)}
Pages(url) ==
    {[title |-> "Title", content |-> c] : c \in PageContents(url)}
        \cup {[title |-> "NO_TITLE", content |-> Content(url, MinContentLen, 1)]}
NoPage == [title |-> "-", content |-> NO_CONTENT]

Result(title, url, content) == [title |-> title, url |-> url, content |-> content]
Sentinel(url) == Result("NO_TITLE", url, NO_CONTENT)

\* a coroutine fetch_page_content(browser, url): its position (the await it
\* is at), the state of its tab, the title and content it holds and the value
\* it returned
Task(url, pos, tab, page, result) ==
    [url |-> url, pc |-> pos, tab |-> tab, page |-> page, result |-> result]
NewTask(url) == Task(url, "get", "none", NoPage, None)

\* a variant of the except branch that starts the fetch over
fetch_failure_StartsOver(t) ==
    Task(t.url, "get", t.tab, NoPage, None)

\* a variant of the except branch that returns what the coroutine holds
fetch_failure_KeepsPage(t) ==
    Task(t.url, "done", t.tab, NoPage, Some(Result(t.page.title, t.url, t.page.content)))

\* the except branch taken at the stage the coroutine is at
fetch_failure(t) ==
    Task(t.url, "done", t.tab, NoPage, Some(Sentinel(t.url)))

\* one step of the coroutine: from the await it is at to the next one, ok
\* telling whether the awaited call (and the synchronous extraction after
\* get_content) went well, page what the page yields
fetch_page_content(t, ok, page) ==
    IF ~ok THEN fetch_failure(t)
    ELSE IF t.pc = "get" THEN Task(t.url, "sleep", "open", t.page, None)
    ELSE IF t.pc = "sleep" THEN Task(t.url, "select", t.tab, t.page, None)
    ELSE IF t.pc = "select" THEN Task(t.url, "get_content", t.tab, t.page, None)
    ELSE IF t.pc = "get_content" THEN Task(t.url, "close", t.tab, page, None)
    ELSE Task(t.url, "done", "closed", NoPage,
              Some(Result(t.page.title, t.url, t.page.content)))

(***************************************************************************)
(* Corpus and retrieval                                                    *)
(***************************************************************************)
\* a filter that also drops a text of exactly the minimum length
Dropped_AtMost(r) == r.title = "NO_TITLE" \/ r.content.len <= MinContentLen

\* title == "NO_TITLE" or len(content) < 500
Dropped(r) == r.title = "NO_TITLE" \/ r.content.len < MinContentLen

\* f"# {title}\n\n{content}\n\n", as the sequence of its pieces
Rendered(title, content) == <<"# ", title, "\n\n", content, "\n\n">>
TitleOf(entry) == entry[2]
ContentOf(entry) == entry[4]

\* the loop over the results: md_texts grows by one rendered entry per kept
\* result, in the order of the results
RECURSIVE BuildCorpus(_)
BuildCorpus(rs) ==
    IF Len(rs) = 0 THEN <<>>
    ELSE IF Dropped(rs[1]) THEN BuildCorpus(Tail(rs))
    ELSE <<Rendered(rs[1].title, rs[1].content)>> \o BuildCorpus(Tail(rs))

\* MarkdownHeaderTextSplitter.split_text: one document per heading section
Doc(entry, sec) == [title |-> TitleOf(entry), text |-> ContentOf(entry).text, sec |-> sec]
RECURSIVE split_text(_)
split_text(md) ==
    IF Len(md) = 0 THEN <<>>
    ELSE [k \in 1..ContentOf(md[1]).nsec |-> Doc(md[1], k)] \o split_text(Tail(md))

\* a store that outlives the call and takes the documents in addition
from_documents_Accumulates(old, docs) == old \o docs

\* InMemoryVectorStore.from_documents: a new store holding the documents
from_documents(old, docs) == docs

\* retriever.invoke(query): the k documents of the store the ranking puts
\* first; the ranking depends on the embeddings and is either order here
Rankings == {"forward", "reverse"}
retrieve(st, ranking, k) ==
    SubSeq(IF ranking = "forward" THEN st ELSE Reverse(st), 1, Min(k, Len(st)))

\* what the embedding backend and the index may do in a call of RAG
RagFaults == {"none", "embedding", "index"}

\* a RAG that answers a failure with no documents
RAG_ReturnsEmpty(v, md, fault, ranking, old) ==
    ListVal(IF fault = "none"
            THEN retrieve(from_documents(old, split_text(md)), ranking, RetrieverK)
            ELSE <<>>)

\* RAG(query, markdown_text) of the variant: the value it returns or the
\* exception it raises
RAG(v, md, fault, ranking, old) ==
    IF fault = "none"
    THEN ListVal(retrieve(from_documents(old, split_text(md)), ranking, RetrieverK))
    ELSE IF v = "tool"
         THEN StrVal(<<"Error RAG searching: ", fault>>)
         ELSE Raised(<<"Error RAG searching: ", fault>>)

\* [rag_result.page_content for rag_result in rag_results]: a str has
\* characters, and a character has no page_content
page_contents(rag_results) ==
    IF rag_results.kind = "list" THEN ListVal(rag_results.value)
    ELSE IF Len(rag_results.value) = 0 THEN ListVal(<<>>)
    ELSE Raised(<<"'str' object has no attribute 'page_content'">>)

\* the except branch of the research call
error_web_searching(exc) == StrVal(<<"Error web searching: ">> \o exc.value)

\* the end of the try block: RAG, the comprehension, the return or the handler
try_tail(v, md, fault, ranking, old) ==
    LET rag_results == RAG(v, md, fault, ranking, old) IN
    IF rag_results.kind = "raise" THEN error_web_searching(rag_results)
    ELSE LET texts == page_contents(rag_results) IN
         IF texts.kind = "raise" THEN error_web_searching(texts) ELSE texts

(***************************************************************************)
(* The steps of a research call.  Between two awaits the coroutine runs    *)
(* without interruption, so a step is the code from one await to the next. *)
(***************************************************************************)
Finished == rpc \in {"returned", "raised"}

\* the caller awaits tool_web_search / web_search
NewCall ==
    /\ rpc = "idle" \/ Finished
    /\ ncalls < MaxResearch
    /\ ncalls' = ncalls + 1
    /\ rpc' = "plan"
    /\ search_urls' = None /\ browser' = "unbound" /\ stop_count' = 0 /\ tasks' = <<>>
    /\ results' = None /\ md_texts' = <<>> /\ pending' = None /\ outcome' = None
    /\ events' = NoEvents
    /\ UNCHANGED <<variant, vectorstore>>
    /\ UNCHANGED <<convVars, registryVars, videoVars>>

\* search_urls = get_search_urls(english_query)
Plan ==
    /\ rpc = "plan"
    /\ \E backend \in BackendOutcomes :
         LET r == get_search_urls(variant, backend) IN
         /\ events' = [events EXCEPT !.planner = IF IsNone(backend) THEN "raised" ELSE "ok"]
         /\ IF r.kind = "raise"
            THEN /\ pending' = Some(error_web_searching(r))
                 /\ rpc' = "finally"
                 /\ UNCHANGED search_urls
            ELSE /\ search_urls' = Some(r)
                 /\ rpc' = "start"
                 /\ UNCHANGED pending
    /\ UNCHANGED <<variant, ncalls, browser, stop_count, tasks, results, md_texts, vectorstore,
                   outcome>>
    /\ UNCHANGED <<convVars, registryVars, videoVars>>

\* browser = await zd.start(...), then the list of coroutines handed to
\* asyncio.gather: one per element of search_urls
StartBrowser ==
    /\ rpc = "start"
    /\ \E ok \in BOOLEAN :
         IF ok
         THEN /\ browser' = "running"
              /\ tasks' = [i \in 1..Len(Val(search_urls).value) |->
                              NewTask(Val(search_urls).value[i])]
              /\ rpc' = "gather"
              /\ events' = [events EXCEPT !.browser = "started"]
              /\ UNCHANGED pending
         ELSE /\ pending' = Some(error_web_searching(Raised(<<"zd.start">>)))
              /\ rpc' = "finally"
              /\ events' = [events EXCEPT !.browser = "failed"]
              /\ UNCHANGED <<browser, tasks>>
    /\ UNCHANGED <<variant, ncalls, search_urls, stop_count, results, md_texts, vectorstore,
                   outcome>>
    /\ UNCHANGED <<convVars, registryVars, videoVars>>

\* the fetches awaited one after the other: a coroutine runs only when the
\* ones before it have returned
FetchStep_OneByOne(i) ==
    /\ rpc = "gather"
    /\ tasks[i].pc # "done"
    /\ \A j \in 1..(i - 1) : tasks[j].pc = "done"
    /\ \E ok \in BOOLEAN :
       \E page \in IF ok /\ tasks[i].pc = "get_content" THEN Pages(tasks[i].url) ELSE {NoPage} :
         tasks' = [tasks EXCEPT ![i] = fetch_page_content(tasks[i], ok, page)]
    /\ UNCHANGED <<variant, ncalls, rpc, search_urls, browser, stop_count, results, md_texts,
                   vectorstore, pending, outcome, events>>
    /\ UNCHANGED <<convVars, registryVars, videoVars>>

\* one coroutine of the batch runs to its next await or to its return
FetchStep(i) ==
    /\ rpc = "gather"
    /\ tasks[i].pc # "done"
    /\ \E ok \in BOOLEAN :
       \E page \in IF ok /\ tasks[i].pc = "get_content" THEN Pages(tasks[i].url) ELSE {NoPage} :
         tasks' = [tasks EXCEPT ![i] = fetch_page_content(tasks[i], ok, page)]
    /\ UNCHANGED <<variant, ncalls, rpc, search_urls, browser, stop_count, results, md_texts,
                   vectorstore, pending, outcome, events>>
    /\ UNCHANGED <<convVars, registryVars, videoVars>>

\* a join that yields the pages before the sentinels
gather_PagesFirst(ts) ==
    [i \in 1..Len(ts) |->
        Val((SelectSeq(ts, LAMBDA t : t.tab = "closed")
                \o SelectSeq(ts, LAMBDA t : t.tab # "closed"))[i].result)]

\* asyncio.gather returns: the results in the order of the coroutines
gather(ts) == [i \in 1..Len(ts) |-> Val(ts[i].result)]

\* the code after the join, given the results it yields: the corpus, RAG and
\* the comprehension run to the return statement or to the except branch
AfterJoin(rs) ==
    /\ results' = Some(rs)
    /\ md_texts' = BuildCorpus(rs)
    /\ \E fault \in RagFaults, ranking \in Rankings :
         /\ fault # "none" => ranking = "forward"
         /\ events' = [events EXCEPT !.rag = fault]
         /\ vectorstore' = IF fault = "none"
                           THEN from_documents(vectorstore, split_text(md_texts'))
                           ELSE vectorstore
         /\ pending' = Some(try_tail(variant, md_texts', fault, ranking, vectorstore))
    /\ rpc' = "finally"
    /\ UNCHANGED <<variant, ncalls, search_urls, browser, stop_count, tasks, outcome>>
    /\ UNCHANGED <<convVars, registryVars, videoVars>>

\* a join that resumes as soon as one coroutine has returned, with the
\* results there are
Gathered_FirstCompleted ==
    /\ rpc = "gather"
    /\ \E i \in 1..Len(tasks) : tasks[i].pc = "done"
    /\ AfterJoin(gather(SelectSeq(tasks, LAMBDA t : t.pc = "done")))

\* results = await asyncio.gather(*tasks) resumes once every coroutine has
\* returned
Gathered ==
    /\ rpc = "gather"
    /\ \A i \in 1..Len(tasks) : tasks[i].pc = "done"
    /\ AfterJoin(gather(tasks))

\* a batch with a deadline: when it expires the call leaves the join and
\* stops the browser with the fetches there are
Finally_OnDeadline ==
    /\ rpc \in {"finally", "gather"}
    /\ IF browser = "unbound"
       THEN /\ outcome' = Some(Raised(<<"UnboundLocalError">>))
            /\ rpc' = "raised"
            /\ UNCHANGED <<browser, stop_count>>
       ELSE /\ stop_count' = stop_count + 1
            /\ browser' = "stopped"
            /\ outcome' = IF IsNone(pending)
                          THEN Some(error_web_searching(Raised(<<"TimeoutError">>)))
                          ELSE pending
            /\ rpc' = "returned"
    /\ UNCHANGED <<variant, ncalls, search_urls, tasks, results, md_texts, vectorstore, pending,
                   events>>
    /\ UNCHANGED <<convVars, registryVars, videoVars>>

\* finally: await browser.stop(); a name never bound raises UnboundLocalError,
\* which replaces the pending return value
Finally ==
    /\ rpc = "finally"
    /\ IF browser = "unbound"
       THEN /\ outcome' = Some(Raised(<<"UnboundLocalError">>))
            /\ rpc' = "raised"
            /\ UNCHANGED <<browser, stop_count>>
       ELSE /\ stop_count' = stop_count + 1
            /\ browser' = "stopped"
            /\ outcome' = pending
            /\ rpc' = "returned"
    /\ UNCHANGED <<variant, ncalls, search_urls, tasks, results, md_texts, vectorstore, pending,
                   events>>
    /\ UNCHANGED <<convVars, registryVars, videoVars>>

\* the process before its first research call: the tool of the agent or the
\* script of the skill
InitSearch ==
    /\ store = <<>>
    /\ tool_pool = RegisteredTools
    /\ messages = <<>>
    /\ skills_metadata = None
    /\ allowed_tools_data = None
    /\ user_lang_code = None
    /\ translate_call = None
    /\ pc = "idle"
    /\ request = None
    /\ tool_calls = <<>>
    /\ writes = <<>>
    /\ applied = {}
    /\ variant \in {"tool", "script"}
    /\ ncalls = 0
    /\ rpc = "idle"
    /\ vectorstore = <<>>
    /\ FreshCall
    /\ RegistryIdle
    /\ VideoIdle

NextSearch ==
    \/ NewCall
    \/ Plan
    \/ StartBrowser
    \/ \E i \in 1..Len(tasks) : FetchStep(i)
    \/ Gathered
    \/ Finally

SpecSearch == InitSearch /\ [][NextSearch]_vars

\* the longest batch a call dispatches: one fetch per planned URL, or per
\* character of the planner's error string, or the two of a repeated URL
MaxBatch ==
    LET m == IF MaxUrls > MaxErrChars THEN MaxUrls ELSE MaxErrChars IN
    IF m > 2 THEN m ELSE 2

\* the first research call of the process
FirstCall == ncalls = 0 /\ NewCall

\* a process that makes one research call, as the script of the skill does
NextOneCall ==
    \/ FirstCall
    \/ Plan
    \/ StartBrowser
    \/ \E i \in 1..Len(tasks) : FetchStep(i)
    \/ Gathered
    \/ Finally

\* the coroutine of the i-th fetch, when the batch has one
RunsFetch(i) == i \in 1..Len(tasks) /\ FetchStep(i)

\* The event loop resumes every coroutine of the batch whose await has
\* completed.  The awaits of the first fetch may never complete: its steps
\* are under no fairness condition, so it may stay in flight for ever.
SpecSearchSiblings ==
    InitSearch /\ [][NextOneCall]_vars /\ \A i \in 2..MaxBatch : WF_vars(RunsFetch(i))

\* The event loop resumes the call and every coroutine of the batch whenever
\* the call awaited has completed, and every awaited call completes: the
\* planner, the start of the browser, the awaits of every fetch, the
\* embedding and index calls and the stop of the browser.
SpecSearchFair ==
    /\ InitSearch /\ [][NextOneCall]_vars
    /\ WF_vars(Plan) /\ WF_vars(StartBrowser)
    /\ \A i \in 1..MaxBatch : WF_vars(RunsFetch(i))
    /\ WF_vars(Gathered) /\ WF_vars(Finally)

(***************************************************************************)
(* Vocabulary of the properties of the research call                       *)
(***************************************************************************)
TaskIds == 1..Len(tasks)
Settled(i) == tasks[i].pc = "done"
FetchFailed(i) == Settled(i) /\ tasks[i].tab # "closed"
TabWasOpened(i) == tasks[i].tab # "none"
ReturnedStr == rpc = "returned" /\ Val(outcome).kind = "str"
ReturnedList == rpc = "returned" /\ Val(outcome).kind = "list"

\* C11: when a research call has ended, on whichever exit path, the stop of
\* the browser has been invoked exactly once in it.
C11_StopExactlyOnce ==
    Finished => stop_count = 1

\* C12: a fetch that has returned and had opened a tab has closed it, whether
\* it returned a page or failed at a stage after the tab was opened.
C12_TabClosedOnReturn ==
    \A i \in TaskIds : (Settled(i) /\ TabWasOpened(i)) => tasks[i].tab = "closed"

\* a failure inside fetch i: this step settles it without its tab closed
FailsIn(i) == ~Settled(i) /\ tasks'[i].pc = "done" /\ tasks'[i].tab # "closed"

C13_FailureStep ==
    \A i \in TaskIds :
        (rpc = "gather" /\ FailsIn(i)) =>
            /\ tasks'[i].result = Some(Sentinel(tasks[i].url))
            /\ \A j \in TaskIds \ {i} : tasks'[j] = tasks[j]
            /\ rpc' = "gather" /\ pending' = pending /\ outcome' = outcome

C13_FailedStaysSentinel ==
    \A i \in TaskIds :
        FetchFailed(i) =>
            /\ tasks[i].result = Some(Sentinel(tasks[i].url))
            /\ ~IsNone(results) =>
                 /\ Len(Val(results)) = Len(tasks)
                 /\ \A j \in TaskIds : Val(results)[j] = Val(tasks[j].result)
                 /\ events.rag # "-"

\* C13: a fetch that fails at any stage settles with the sentinel of its url;
\* the step changes no sibling fetch and leaves the research call running, and
\* the batch then yields every sibling's own result and goes on to retrieval.
C13_FailureAbsorbed ==
    []C13_FailedStaysSentinel /\ [][C13_FailureStep]_vars

C13_Witness ==
    /\ ReturnedList /\ Len(Val(outcome).value) > 0
    /\ \E i, j \in TaskIds :
         /\ FetchFailed(i) /\ TabWasOpened(i)
         /\ ~FetchFailed(j) /\ ~Dropped(Val(results)[j])

\* chunk processing of the call begins in this step: the corpus, the index or
\* the retrieval of the call comes into being
ProcessingBegins ==
    /\ rpc = "gather"
    /\ results' # results \/ md_texts' # md_texts \/ vectorstore' # vectorstore
           \/ events'.rag # events.rag \/ pending' # pending

Resolved(i) ==
    /\ Settled(i)
    /\ \/ tasks[i].result = Some(Sentinel(tasks[i].url))
       \/ /\ tasks[i].tab = "closed"
          /\ \E pg \in Pages(tasks[i].url) :
               tasks[i].result = Some(Result(pg.title, tasks[i].url, pg.content))

C14_BarrierStep ==
    ProcessingBegins => /\ \A i \in TaskIds : Resolved(i)
                        /\ tasks' = tasks

C14_ProcessedOnlySettled ==
    (~IsNone(results) \/ md_texts # <<>> \/ events.rag # "-") =>
        /\ \A i \in TaskIds : Resolved(i)
        /\ ~IsNone(results) /\ Len(Val(results)) = Len(tasks)

\* C14: the corpus, the split, the embedding and the retrieval of a research
\* call begin only in a step taken when every dispatched fetch has returned a
\* page or the sentinel, and they exist only while that is so.
C14_JoinIsBarrier ==
    []C14_ProcessedOnlySettled /\ [][C14_BarrierStep]_vars

C14_Witness ==
    /\ rpc = "finally" /\ events.rag = "none" /\ md_texts # <<>>
    /\ Len(tasks) >= 2
    /\ \E i, j \in TaskIds : FetchFailed(i) /\ ~FetchFailed(j)

\* C15: once the metasearch call has raised, the research call dispatches no
\* fetch and runs no retrieval, and it ends by returning an error string.
C15_PlannerFailureAborts ==
    events.planner = "raised" =>
        /\ tasks = <<>>
        /\ events.rag = "-"
        /\ Finished => ReturnedStr

\* C16: a research call never ends by raising: whatever the planner, the
\* browser start, the fetches, the embedding and the index do, it returns a
\* list of chunk texts or an error string.
C16_NeverRaises ==
    Finished => (ReturnedList \/ ReturnedStr)

RagFailed == events.rag \in {"embedding", "index"}

\* C17: once the embedding backend or the index build has failed in a research
\* call, the value the call is about to return, and then returns, is an error
\* string.
C17_RagFailureYieldsError ==
    RagFailed =>
        /\ ~IsNone(pending) /\ Val(pending).kind = "str"
        /\ Finished => (ReturnedStr /\ outcome = pending)

C17_Witness ==
    /\ RagFailed /\ ReturnedStr /\ md_texts # <<>>
    /\ Val(outcome).value[1] = "Error web searching: "

\* what the claims call a result fit for the corpus
Fit(r) == r.title # "NO_TITLE" /\ r.content.len >= MinContentLen
CorpusEntry(r) == <<"# ", r.title, "\n\n", r.content, "\n\n">>
FitEntries(rs) ==
    LET fit == SelectSeq(rs, Fit) IN [i \in 1..Len(fit) |-> CorpusEntry(fit[i])]

\* C18: once the results of a call are joined, its corpus consists of exactly
\* the results whose title is not "NO_TITLE" and whose text has at least 500
\* characters, in their order; every other result contributes nothing.
C18_CorpusIsFitResults ==
    ~IsNone(results) => md_texts = FitEntries(Val(results))

C18_Witness ==
    /\ ~IsNone(results)
    /\ \E i, j \in 1..Len(Val(results)) :
         /\ Val(results)[i].title = "Title"
         /\ Val(results)[i].content.len = MinContentLen - 1
         /\ Val(results)[j].title = "Title"
         /\ Val(results)[j].content.len = MinContentLen
    /\ Len(md_texts) = 1

PlannerFoundNothing == events.planner = "ok" /\ search_urls = Some(ListVal(<<>>))
AllDropped == ~IsNone(results) /\ \A i \in 1..Len(Val(results)) : ~Fit(Val(results)[i])

\* C19: a research call in which the planner returned no URL, or in which every
\* page was dropped, ends with an empty corpus by returning the empty list or
\* an error string, with the browser stopped.
C19_EmptyCorpusCompletes ==
    (Finished /\ (PlannerFoundNothing \/ AllDropped)) =>
        /\ md_texts = <<>>
        /\ ReturnedStr \/ (ReturnedList /\ Val(outcome).value = <<>>)
        /\ browser = "stopped" /\ stop_count = 1

\* the chunk comes from the text of a fit result of the current call
FromFitResult(c) ==
    \E j \in 1..Len(Val(results)) :
        /\ Fit(Val(results)[j])
        /\ c.title = Val(results)[j].title
        /\ c.text = Val(results)[j].content.text
        /\ c.sec \in 1..Val(results)[j].content.nsec

\* C20: a research call that returns a list returns at most 10 chunk texts,
\* each of them a section of the text of a result of this call that passed the
\* filter; none comes from a dropped page, a sentinel or an earlier call.
C20_ChunksFromThisCall ==
    ReturnedList =>
        /\ Len(Val(outcome).value) <= RetrieverK
        /\ \A n \in 1..Len(Val(outcome).value) : FromFitResult(Val(outcome).value[n])

C20_Witness ==
    /\ ReturnedList /\ ncalls >= 2
    /\ Len(Val(outcome).value) = RetrieverK
    /\ Len(split_text(md_texts)) > RetrieverK

NoDuplicates(l) == \A i, j \in 1..Len(l) : l[i] = l[j] => i = j

\* C21: the list of URLs the planner hands to the research call has no
\* duplicates and at most 10 entries, whatever result records the metasearch
\* backend returned.
C21_PlannerOutputDistinctCapped ==
    (~IsNone(search_urls) /\ Val(search_urls).kind = "list") =>
        /\ NoDuplicates(Val(search_urls).value)
        /\ Len(Val(search_urls).value) <= PlannerMaxResults

Planned == Val(search_urls).value
Dispatched == events.browser = "started"

\* C22: the fetches dispatched are one per entry of the planned list, in its
\* order; the joined results are in that order too, each the result of its own
\* fetch, and the corpus is the surviving results in that order, each rendered
\* as "# ", title, two newlines, text, two newlines.
C22_OrderIsPlanOrder ==
    Dispatched =>
        /\ Len(tasks) = Len(Planned)
        /\ \A i \in TaskIds : tasks[i].url = Planned[i]
        /\ ~IsNone(results) =>
             /\ Len(Val(results)) = Len(Planned)
             /\ \A i \in TaskIds : /\ Val(results)[i].url = Planned[i]
                                   /\ Val(results)[i] = Val(tasks[i].result)
             /\ LET fit == SelectSeq(Val(results), Fit) IN
                /\ Len(md_texts) = Len(fit)
                /\ \A k \in 1..Len(fit) :
                     md_texts[k] = <<"# ", fit[k].title, "\n\n", fit[k].content, "\n\n">>

C22_Witness ==
    /\ Dispatched /\ ~IsNone(results)
    /\ Planned = <<"u1", "u2">>
    /\ Len(md_texts) = 2
    /\ md_texts[1][4].text = "u1" /\ md_texts[2][4].text = "u2"

(***************************************************************************)
(* The language guard: conversations over the wide sets of contents, with  *)
(* an empty skills directory.                                              *)
(***************************************************************************)
\* most messages a conversation has when a turn of these runs begins, plus two
MaxLangMsgs == 4

InitLang ==
    /\ store = <<>>
    /\ tool_pool = RegisteredTools
    /\ messages = <<>>
    /\ skills_metadata = None
    /\ allowed_tools_data = None
    /\ user_lang_code = None
    /\ translate_call = None
    /\ pc = "idle"
    /\ request = None
    /\ tool_calls = <<>>
    /\ writes = <<>>
    /\ applied = {}
    /\ SearchIdle
    /\ RegistryIdle
    /\ VideoIdle

NextLang ==
    \/ UserTurnOf(HumanContents, MaxLangMsgs)
    \/ SkillsBeforeAgent
    \/ TranslateBeforeAgent
    \/ ModelCallOf(AIContents)
    \/ \E i \in 1..MaxCalls : ExecTool(i)
    \/ \E i \in 1..MaxCalls : ApplyWrite(i)
    \/ TranslateAfterAgentOf(TranslateOutcomes)

SpecLang == InitLang /\ [][NextLang]_vars

(***************************************************************************)
(* Vocabulary of the properties of the language guard                      *)
(***************************************************************************)
AfterTurn == pc = "after_agent" /\ pc' # "after_agent"
FinalMessage == messages[Len(messages)]
TargetLanguage == IF IsNone(user_lang_code) THEN LangEn ELSE Val(user_lang_code)
Invoked == ~IsNone(translate_call')
SubtagsDiffer(a, b) == PrimarySubtag(a) # PrimarySubtag(b)

\* the final message is a non-empty assistant message whose language is
\* detected and differs in its primary subtag from the target language
MustTranslate ==
    /\ FinalMessage.type = "ai" /\ FinalMessage.content # <<>>
    /\ ~IsNone(classify(FinalMessage.content))
    /\ SubtagsDiffer(Val(classify(FinalMessage.content)), TargetLanguage)

\* C23: the guard after a turn invokes the translation exactly when the final
\* message is a non-empty assistant message whose detected language differs in
\* its primary subtag from the target language, and a translation that returns
\* becomes the content of the final message.
C23_TranslatesIffSubtagsDiffer ==
    [][AfterTurn =>
          /\ Invoked <=> MustTranslate
          /\ (Invoked /\ ~IsNone(Val(translate_call').result)) =>
                messages'[Len(messages)].content = Val(Val(translate_call').result)]_vars

\* C24: the guard after a turn leaves the message list of the state as it
\* was, the last message included.
C24_HistoryUntouched ==
    [][AfterTurn => messages' = messages]_vars

ClassificationFails == FinalMessage.type = "ai" /\ FinalMessage.content # <<>>
                           /\ IsNone(classify(FinalMessage.content))
TranslationFails == Invoked /\ IsNone(Val(translate_call').result)

\* C25: when the classification of the final message or the translation fails,
\* the guard after the turn ends normally and the messages, the final one
\* included, are what they were.
C25_FailureSwallowed ==
    [][(AfterTurn /\ (ClassificationFails \/ TranslationFails)) =>
          /\ pc' = "idle"
          /\ messages' = messages]_vars

C25_Witness ==
    /\ pc = "idle" /\ Len(messages) = 4
    /\ messages[2].content = <<"bad">>
    /\ ~IsNone(translate_call) /\ IsNone(Val(translate_call).result)
    /\ messages[4].content = Val(translate_call).text

RECURSIVE LatestUserContent(_)
LatestUserContent(msgs) ==
    IF msgs[Len(msgs)].type = "human" THEN msgs[Len(msgs)].content
    ELSE LatestUserContent(SubSeq(msgs, 1, Len(msgs) - 1))

ExpectedTarget(msgs) ==
    IF IsNone(classify(LatestUserContent(msgs))) THEN LangEn
    ELSE Val(classify(LatestUserContent(msgs)))

C26_TargetDefined ==
    pc \in {"model", "tools", "after_agent"} =>
        user_lang_code = Some(ExpectedTarget(messages))

C26_ComparesCurrent ==
    (AfterTurn /\ Invoked) =>
        Val(translate_call').target_language = ExpectedTarget(messages)

\* C26: from the guard before a turn to the guard after it, the target
\* language is defined: the classifier's code of the latest user message, or
\* "en" when that classification fails; it is the value the guard after the
\* turn translates to.
C26_TargetIsThisTurns ==
    []C26_TargetDefined /\ [][C26_ComparesCurrent]_vars

C26_Witness ==
    /\ pc = "after_agent" /\ Len(messages) = 4
    /\ messages[1].content = <<"nihao">>
    /\ messages[3].content = <<"bad">>
    /\ user_lang_code = Some(LangEn)

(***************************************************************************)
(* Properties of the catalog reload, the registry and the filter           *)
(***************************************************************************)
InTurn == pc \in {"translate_before_agent", "model", "tools", "after_agent"}

C27_ReloadStep ==
    (pc = "skills_before_agent" /\ pc' # pc) => skills_metadata' = Some(list_skills(store))

\* within a turn the list read by before_agent stays as it is, whatever
\* happens to the directory
C27_ListKeptInTurn ==
    (InTurn /\ InTurn') => skills_metadata' = skills_metadata

C27_CatalogCurrent ==
    /\ InTurn => ~IsNone(skills_metadata)
    /\ (pc \in {"tools", "after_agent"} /\ ~IsNone(request)) =>
           Val(request).skills_list = _format_skills_list(Val(skills_metadata))
    /\ \A i \in DOMAIN writes :
           (pc = "tools" /\ Returned(i) /\ IsLoad(i)) =>
               Cmd(i) = tool_load_skill(tool_calls[i].args, Val(skills_metadata),
                                        SubSeq(messages, 1, DispatchLen), i)

\* C27: the step of before_agent at the start of a turn sets the skill list of
\* the conversation to what the directory holds at that moment, and for the
\* rest of the turn the loader and the system prompt work from that list.
C27_CatalogRereadEachTurn ==
    []C27_CatalogCurrent /\ [][C27_ReloadStep /\ C27_ListKeptInTurn]_vars

\* skill A was loaded in the first turn and removed before the second
C27_Witness ==
    /\ InTurn /\ Len(messages) >= 5
    /\ messages[3].type = "tool"
    /\ messages[3].content = <<"Loaded skill: ", "A", "\n\n", "bodyA">>
    /\ messages[5].type = "human"
    /\ skills_metadata = Some(list_skills(store))
    /\ \A k \in 1..Len(SkillsOfState) : SkillsOfState[k].name # "A"

(***************************************************************************)
(* The import of the package skills: the loop over _TOOL_MAPPING           *)
(***************************************************************************)
\* most entries of the mapping
MaxEntries == 3

\* what importlib.import_module(module_path) followed by getattr(mod,
\* func_name) may do for an entry: return the function, raise ImportError
\* (module or a dependency missing), raise AttributeError (no such function),
\* or raise something else while the module body runs (SyntaxError, ValueError,
\* OSError, ...)
LoadOutcomes == {"ok", "ImportError", "AttributeError", "Exception"}
FuncNames == <<"f1", "f2", "f3", "f4", "f5">>
Mappings ==
    UNION {{[i \in 1..n |-> [func_name |-> FuncNames[i], outcome |-> o[i]]] :
               o \in [1..n -> LoadOutcomes]} : n \in 0..Min(MaxEntries, 5)}

\* except (ImportError, AttributeError)
Caught(exc) == exc \in {"ImportError", "AttributeError"}

\* one round of the for loop
LoadEntry ==
    /\ import_state = "running"
    /\ next_entry <= Len(tool_mapping)
    /\ LET e == tool_mapping[next_entry] IN
       IF e.outcome = "ok"
       THEN /\ all_names' = Append(all_names, e.func_name)
            /\ tools_list' = Append(tools_list, e.func_name)
            /\ next_entry' = next_entry + 1
            /\ UNCHANGED <<warnings, import_state>>
       ELSE IF Caught(e.outcome)
       THEN /\ warnings' = Append(warnings, e.func_name)
            /\ next_entry' = next_entry + 1
            /\ UNCHANGED <<all_names, tools_list, import_state>>
       ELSE /\ import_state' = "raised"
            /\ UNCHANGED <<all_names, tools_list, warnings, next_entry>>
    /\ UNCHANGED tool_mapping
    /\ UNCHANGED <<convVars, searchVars, videoVars>>

\* the loop is exhausted: the import of the package returns
FinishImport ==
    /\ import_state = "running"
    /\ next_entry > Len(tool_mapping)
    /\ import_state' = "done"
    /\ UNCHANGED <<tool_mapping, next_entry, tools_list, all_names, warnings>>
    /\ UNCHANGED <<convVars, searchVars, videoVars>>

InitRegistry ==
    /\ store = <<>>
    /\ tool_pool = RegisteredTools
    /\ messages = <<>>
    /\ skills_metadata = None
    /\ allowed_tools_data = None
    /\ user_lang_code = None
    /\ translate_call = None
    /\ pc = "idle"
    /\ request = None
    /\ tool_calls = <<>>
    /\ writes = <<>>
    /\ applied = {}
    /\ SearchIdle
    /\ VideoIdle
    /\ tool_mapping \in Mappings
    /\ next_entry = 1
    /\ tools_list = <<>>
    /\ all_names = <<>>
    /\ warnings = <<>>
    /\ import_state = "running"

NextRegistry == LoadEntry \/ FinishImport

SpecRegistry == InitRegistry /\ [][NextRegistry]_vars

LoadableNames ==
    LET ok == SelectSeq(tool_mapping, LAMBDA e : e.outcome = "ok") IN
    [i \in 1..Len(ok) |-> ok[i].func_name]
FailingNames ==
    LET bad == SelectSeq(tool_mapping, LAMBDA e : e.outcome # "ok") IN
    [i \in 1..Len(bad) |-> bad[i].func_name]

\* C28: the import of the registry never raises, whatever the load of an entry
\* does; when it is over the loaded tools are exactly the entries whose load
\* succeeded, in mapping order, and every other entry has been logged.
C28_RegistryLoadNeverFails ==
    /\ import_state # "raised"
    /\ import_state = "done" =>
          /\ tools_list = LoadableNames /\ all_names = LoadableNames
          /\ warnings = FailingNames

ModelInvoked == pc = "model" /\ pc' # "model"

C29_FreshAndPure ==
    ModelInvoked =>
        /\ ~IsNone(request')
        /\ Val(request').tools = filtered_tools(tool_pool, allowed_tools_data)
        /\ tool_pool' = tool_pool
        /\ allowed_tools_data' = allowed_tools_data

C29_Idempotent ==
    /\ filtered_tools(filtered_tools(tool_pool, allowed_tools_data), allowed_tools_data)
           = filtered_tools(tool_pool, allowed_tools_data)
    /\ (pc = "after_agent" /\ ~IsNone(request)) =>
           filtered_tools(Val(request).tools, allowed_tools_data) = Val(request).tools

\* C29: filtering a filtered tool list again with the same gate state gives
\* the same list; a model invocation leaves the gate state and the tool pool
\* as they are and offers the filter of the pool by the gate state of that
\* moment.
C29_FilterPureIdempotentFresh ==
    []C29_Idempotent /\ [][C29_FreshAndPure]_vars

\* the second invocation of a turn offers a tool granted after the first
C29_Witness ==
    /\ pc = "after_agent"
    /\ Len(messages) = 4
    /\ IsLoadedMessage(messages[3])
    /\ ~IsNone(request)
    /\ Len(Val(request).tools) > 1
    /\ Val(request).tools = filtered_tools(tool_pool, allowed_tools_data)

\* the merge of call i re-applies a grant the gate state already holds: same
\* step, and no tool the gate does not already allow
Reapplies(i) ==
    /\ Merges(i)
    /\ ~IsNone(Cmd(i).allowed_tools_data)
    /\ ~IsNone(allowed_tools_data)
    /\ Grant(i).step_num = Val(allowed_tools_data).step_num
    /\ Range(Grant(i).allowed_tools) \subseteq AllowedSet

\* C30: merging a grant of the current step whose tools are all allowed
\* already leaves the set of allowed tools and the step of the gate state as
\* they are.
C30_ReapplyIsNoop ==
    [][\A i \in DOMAIN writes :
          Reapplies(i) =>
              /\ ~IsNone(allowed_tools_data')
              /\ Range(Val(allowed_tools_data').allowed_tools) = AllowedSet
              /\ Val(allowed_tools_data').step_num = Val(allowed_tools_data).step_num]_vars

\* skill A loaded twice in one batch, both grants merged
C30_Witness ==
    /\ Len(tool_calls) = 2
    /\ applied = {1, 2}
    /\ IsLoad(1) /\ IsLoad(2)
    /\ tool_calls[1].args = "A" /\ tool_calls[2].args = "A"
    /\ Hit(1)
    /\ AllowedSet = Range(Grant(1).allowed_tools)
    /\ Val(allowed_tools_data).step_num = Grant(2).step_num

(***************************************************************************)
(* The browser and the fetches of a batch                                  *)
(***************************************************************************)
\* the step is the stop of the browser
StopsBrowser == stop_count' = stop_count + 1

\* C31: the browser is stopped only after every dispatched fetch of the
\* batch has settled: at the stop, and whenever the browser is stopped, no
\* fetch is in flight, and once it is stopped no fetch moves and no tab is
\* opened on it.
C31_StopAfterAllSettled ==
    /\ [](browser = "stopped" => \A i \in TaskIds : Settled(i))
    /\ [][/\ StopsBrowser => \A i \in TaskIds : Settled(i)
          /\ browser = "stopped" =>
                \A i \in 1..Len(tasks') : i \in TaskIds /\ tasks'[i] = tasks[i]]_vars

\* the browser was stopped after a batch of two fetches, one that opened a
\* tab and failed and one that never opened its tab
C31_Witness ==
    /\ browser = "stopped"
    /\ stop_count = 1
    /\ Len(tasks) = 2
    /\ \A i \in TaskIds : FetchFailed(i)
    /\ TabWasOpened(1)
    /\ ~TabWasOpened(2)

\* the i-th fetch of the batch has been dispatched
InBatch(i) == rpc = "gather" /\ i \in TaskIds

\* C32: within one batch a fetch that is slow or never settles does not keep
\* a sibling from running to completion: whatever the first fetch does,
\* every other dispatched fetch eventually settles with its result or the
\* sentinel.
C32_SiblingsSettle ==
    \A i \in 2..MaxBatch : InBatch(i) ~> (i \in TaskIds /\ Settled(i))

\* the second fetch has settled with its page while the first has not taken
\* a step
C32_Witness ==
    /\ rpc = "gather"
    /\ Len(tasks) = 2
    /\ tasks[1].pc = "get"
    /\ Settled(2)
    /\ ~FetchFailed(2)

\* the call has returned a list of chunk texts or an error string and the
\* browser is stopped
ReturnedAndStopped ==
    /\ rpc = "returned"
    /\ Val(outcome).kind \in {"list", "str"}
    /\ browser = "stopped"
    /\ stop_count = 1

\* C33: once the planner call has returned and the browser has started, a
\* call in which every awaited call completes eventually returns a result
\* with the browser stopped; and no call that dispatched its fetches is past
\* the join, or has returned, with a fetch still in flight.
C33_CallTerminates ==
    /\ (events.browser = "started") ~> ReturnedAndStopped
    /\ [](Dispatched /\ rpc \in {"finally", "returned", "raised"} =>
             \A i \in TaskIds : Settled(i))

\* the call returned chunk texts after a batch of two fetches that both
\* delivered their page, with the browser stopped
C33_Witness ==
    /\ ReturnedAndStopped
    /\ Val(outcome).kind = "list"
    /\ Len(tasks) = 2
    /\ \A i \in TaskIds : Settled(i) /\ ~FetchFailed(i)

(***************************************************************************)
(* Skills that declare no tools, and the order of the steps                *)
(***************************************************************************)
\* call i is a successful load of a skill whose allowed_tools is absent
HitWithoutTools(i) == Hit(i) /\ DeclaredTools(LoadedSkill(i)) = <<>>

\* C34: merging the successful load of a skill that declares no tools
\* applies a grant with an empty tool set: when the step of the call differs
\* from lastUpdateStep (or there is none), allowedTools becomes empty with
\* that step and the model is offered the loader only; when it equals
\* lastUpdateStep, allowedTools, as a set, and the step stay as they are.
C34_EmptyGrantApplied ==
    [][\A i \in DOMAIN writes :
          (Merges(i) /\ HitWithoutTools(i)) =>
              IF IsNone(allowed_tools_data) \/ Val(allowed_tools_data).step_num # DispatchLen
              THEN /\ allowed_tools_data' = Some(ToolUpdate(<<>>, DispatchLen))
                   /\ filtered_tools(tool_pool, allowed_tools_data') = <<LOADER_TOOL_NAME>>
              ELSE /\ AllowedSet' = AllowedSet
                   /\ Val(allowed_tools_data').step_num = Val(allowed_tools_data).step_num]_vars

\* B (y and z) was loaded at step 2, then C, which declares no tools, at
\* step 4: nothing is allowed any more
C34_Witness ==
    /\ Len(messages) >= 5
    /\ messages[3].content = <<"Loaded skill: ", "B", "\n\n", "bodyB">>
    /\ messages[5].content = <<"Loaded skill: ", "C", "\n\n", "bodyC">>
    /\ allowed_tools_data = Some(ToolUpdate(<<>>, 4))
    /\ OfferedTools = <<LOADER_TOOL_NAME>>

\* grants a load could carry with a step older than lastUpdateStep
StaleGrants ==
    IF IsNone(allowed_tools_data) THEN {}
    ELSE {ToolUpdate(DeclaredTools(sk), n) :
             sk \in {SkillA, SkillA2, SkillB, SkillC},
             n \in 0..(Val(allowed_tools_data).step_num - 1)}

\* two opposite iteration orders of a set of tool names
TwoHashOrders == {<<"x", "y", "z", "q">>, <<"q", "z", "y", "x">>}

\* the message list grows by appending only
AppendsOnly ==
    /\ Len(messages') >= Len(messages)
    /\ \A k \in 1..Len(messages) : messages'[k].type = messages[k].type

\* C35: in a conversation whose message list is only appended to,
\* lastUpdateStep never decreases; the order comes from the steps the loads
\* carry, not from the reducer, which would put a grant with a step smaller
\* than lastUpdateStep in the place of the newer tool set.
C35_StepNeverDecreases ==
    /\ [][/\ AppendsOnly
          /\ ~IsNone(allowed_tools_data) =>
                /\ ~IsNone(allowed_tools_data')
                /\ Val(allowed_tools_data').step_num >= Val(allowed_tools_data).step_num]_vars
    /\ [](\A upd \in StaleGrants, ord \in TwoHashOrders :
             skills_reducer(allowed_tools_data, upd, ord) = Some(upd))

\* lastUpdateStep went from 2 to 4 over two loads, and the reducer applied to
\* the grant of step 2 again would bring back its tool set
C35_Witness ==
    /\ Len(messages) = 6
    /\ IsLoadedMessage(messages[3])
    /\ IsLoadedMessage(messages[5])
    /\ ~IsNone(allowed_tools_data)
    /\ Val(allowed_tools_data) = ToolUpdate(<<"y", "z">>, 4)
    /\ ToolUpdate(<<"x", "y">>, 2) \in StaleGrants
    /\ \A ord \in HashOrders :
          skills_reducer(allowed_tools_data, ToolUpdate(<<"x", "y">>, 2), ord)
              = Some(ToolUpdate(<<"x", "y">>, 2))

(***************************************************************************)
(* The video-text operation                                                *)
(***************************************************************************)
\* most calls of the operation one process makes
MaxVideoCalls == 2

\* what a transcription yields
Transcripts == {<<"seg1, ">>, <<"seg1, ", "seg2, ">>}

\* tmp_file.name of the n-th call
TmpPath(n) == <<"/tmp/tmp", ToString(n), ".m4a">>

ErrorDownloadingAudio == <<"Error downloading audio: ", "e">>
ErrorTranscribing == <<"Error transcribing audio to text: ", "e">>

\* what yt-dlp does: it writes the audio file, or fails before writing a file
\* at the output path, or fails in post-processing with the file written
DownloadOutcomes == {"ok", "failed", "failed_after_write"}

\* download_audio(video_url) of the implementation v in call n: the helper of
\* util_tools.py returns the error text, the other two raise it
download_audio(v, n, how) ==
    IF how = "ok" THEN StrVal(TmpPath(n))
    ELSE IF v = "tool" THEN StrVal(ErrorDownloadingAudio)
    ELSE Raised(ErrorDownloadingAudio)

\* audio_to_text(audio_path): transcribing needs the file; the helper of
\* util_tools.py returns the error text, the other two raise it
audio_to_text(v, path, files, ok, text) ==
    IF ok /\ path \in files THEN StrVal(text)
    ELSE IF v = "tool" THEN StrVal(ErrorTranscribing)
    ELSE Raised(ErrorTranscribing)

\* the value the except branch returns for the exception e
video_error(v, e) ==
    IF v = "api" THEN StrVal(<<"Error getting video text content">>)
    ELSE StrVal(<<"Error summarizing video: ">> \o e.value)

FileNotFound(path) == Raised(<<"[Errno 2] No such file or directory: ">> \o path)

VideoFinished == vpc \in {"returned", "raised"}

\* the caller invokes the operation; the api and the script bind
\* audio_path = "" on entering the try block
VideoCall ==
    /\ vpc = "idle" \/ VideoFinished
    /\ video_calls < MaxVideoCalls
    /\ video_calls' = video_calls + 1
    /\ vpc' = "download"
    /\ audio_path' = IF video_variant = "tool" THEN None ELSE Some(<<>>)
    /\ video_texts' = None
    /\ unlinks' = <<>>
    /\ video_pending' = None
    /\ video_outcome' = None
    /\ video_events' = NoVideoEvents
    /\ UNCHANGED <<video_variant, disk>>
    /\ UNCHANGED <<convVars, searchVars, registryVars>>

\* audio_path = download_audio(video_url): download_audio creates a placeholder
\* to get a name, unlinks it and hands the name to yt-dlp
Download ==
    /\ vpc = "download"
    /\ \E how \in DownloadOutcomes :
         LET r == download_audio(video_variant, video_calls, how) IN
         /\ video_events' = [video_events EXCEPT
                                !.download = IF how = "ok" THEN "ok" ELSE "failed"]
         /\ unlinks' = Append(unlinks, TmpPath(video_calls))
         /\ disk' = IF how = "failed" THEN disk ELSE disk \cup {TmpPath(video_calls)}
         /\ IF r.kind = "raise"
            THEN /\ video_pending' = Some(video_error(video_variant, r))
                 /\ vpc' = "finally"
                 /\ UNCHANGED audio_path
            ELSE /\ audio_path' = Some(r.value)
                 /\ vpc' = "transcribe"
                 /\ UNCHANGED video_pending
    /\ UNCHANGED <<video_variant, video_calls, video_texts, video_outcome>>
    /\ UNCHANGED <<convVars, searchVars, registryVars>>

\* video_texts = audio_to_text(audio_path); in the api and the script the
\* return statement follows
Transcribe ==
    /\ vpc = "transcribe"
    /\ \E ok \in BOOLEAN, text \in Transcripts :
         LET r == audio_to_text(video_variant, Val(audio_path), disk, ok, text) IN
         /\ video_events' = [video_events EXCEPT
                                !.transcribe = IF ok /\ Val(audio_path) \in disk
                                               THEN "ok" ELSE "failed"]
         /\ IF r.kind = "raise"
            THEN /\ video_pending' = Some(video_error(video_variant, r))
                 /\ vpc' = "finally"
                 /\ UNCHANGED video_texts
            ELSE /\ video_texts' = Some(r.value)
                 /\ IF video_variant = "tool"
                    THEN vpc' = "unlink" /\ UNCHANGED video_pending
                    ELSE vpc' = "finally" /\ video_pending' = Some(r)
    /\ UNCHANGED <<video_variant, video_calls, audio_path, disk, unlinks, video_outcome>>
    /\ UNCHANGED <<convVars, searchVars, registryVars>>

\* the tool: os.unlink(audio_path) inside the try block, then the return;
\* an OSError of unlink is caught by the except branch
UnlinkInTry ==
    /\ vpc = "unlink"
    /\ unlinks' = Append(unlinks, Val(audio_path))
    /\ IF Val(audio_path) \in disk
       THEN /\ disk' = disk \ {Val(audio_path)}
            /\ video_outcome' = Some(StrVal(Val(video_texts)))
       ELSE /\ video_outcome' = Some(video_error(video_variant, FileNotFound(Val(audio_path))))
            /\ UNCHANGED disk
    /\ vpc' = "returned"
    /\ UNCHANGED <<video_variant, video_calls, audio_path, video_texts, video_pending,
                   video_events>>
    /\ UNCHANGED <<convVars, searchVars, registryVars>>

\* the api and the script: finally: if audio_path: os.unlink(audio_path)
VideoFinally ==
    /\ vpc = "finally"
    /\ IF Len(Val(audio_path)) > 0
       THEN /\ unlinks' = Append(unlinks, Val(audio_path))
            /\ IF Val(audio_path) \in disk
               THEN /\ disk' = disk \ {Val(audio_path)}
                    /\ video_outcome' = video_pending
                    /\ vpc' = "returned"
               ELSE /\ video_outcome' = Some(FileNotFound(Val(audio_path)))
                    /\ vpc' = "raised"
                    /\ UNCHANGED disk
       ELSE /\ video_outcome' = video_pending
            /\ vpc' = "returned"
            /\ UNCHANGED <<unlinks, disk>>
    /\ UNCHANGED <<video_variant, video_calls, audio_path, video_texts, video_pending,
                   video_events>>
    /\ UNCHANGED <<convVars, searchVars, registryVars>>

\* the process before its first call of the operation, in one of the three
\* implementations
InitVideo ==
    /\ store = <<>>
    /\ tool_pool = RegisteredTools
    /\ messages = <<>>
    /\ skills_metadata = None
    /\ allowed_tools_data = None
    /\ user_lang_code = None
    /\ translate_call = None
    /\ pc = "idle"
    /\ request = None
    /\ tool_calls = <<>>
    /\ writes = <<>>
    /\ applied = {}
    /\ SearchIdle
    /\ RegistryIdle
    /\ video_variant \in {"tool", "api", "script"}
    /\ video_calls = 0
    /\ vpc = "idle"
    /\ audio_path = None
    /\ video_texts = None
    /\ disk = {}
    /\ unlinks = <<>>
    /\ video_pending = None
    /\ video_outcome = None
    /\ video_events = NoVideoEvents

NextVideo ==
    \/ VideoCall
    \/ Download
    \/ Transcribe
    \/ UnlinkInTry
    \/ VideoFinally

SpecVideo == InitVideo /\ [][NextVideo]_vars

\* the call returned an error string
VideoReturnedError ==
    /\ vpc = "returned"
    /\ Val(video_outcome).kind = "str"
    /\ Val(video_outcome).value[1] \in
          {"Error summarizing video: ", "Error getting video text content",
           "Error transcribing audio to text: ", "Error downloading audio: "}

\* the os.unlink calls of the operation itself: those after the removal of
\* the placeholder inside download_audio
CallerUnlinks == IF unlinks = <<>> THEN <<>> ELSE Tail(unlinks)

\* C36: when a call of the video-text operation has ended, then if the
\* download succeeded the operation unlinked the temporary audio file exactly
\* once, the file no longer exists and the call returned (the transcript or
\* an error string); if the download failed, the operation did not call
\* os.unlink and the call returned an error string.
C36_TempFileDeletedOnce ==
    VideoFinished =>
        IF video_events.download = "ok"
        THEN /\ CallerUnlinks = <<TmpPath(video_calls)>>
             /\ TmpPath(video_calls) \notin disk
             /\ vpc = "returned"
        ELSE /\ CallerUnlinks = <<>>
             /\ VideoReturnedError

====
